---- MODULE Spec2Model ----
(***************************************************************************)
(* Payments tracker (src/app.py): the Excel-backed record store            *)
(* (carregar_dados, salvar_registro, to_excel_bytes), the form submit      *)
(* handler, and the report section (filter mask and KPIs).                 *)
(*                                                                         *)
(* Text is a sequence of one-character strings, so that str.strip() and    *)
(* the spreadsheet reader's null-marker table act on what was typed.       *)
(* Amounts are integers (cents); a timestamp is a tick count of the clock. *)
(***************************************************************************)
EXTENDS Integers, Sequences, FiniteSets, TLC

(* ------------------------------ bounds -------------------------------- *)
\* Most records the backing file is let grow to.
MaxRows == 2
\* Last tick of the clock read by datetime.now().
MaxClock == 2
\* Clock ticks per calendar day.
TicksPerDay == 2
\* Concurrent processes appending to the same backing file.
NumProcs == 2

(* --------------------------- configuration ---------------------------- *)
ABA == "Records"
SHEET_FILTERED == "Filtered"
COLUNAS_PADRAO == <<"Data/Hora", "Cliente", "Servico", "Valor Pago (USD)">>

Range(s) == {s[i] : i \in DOMAIN s}

(* ------------------------------- text --------------------------------- *)
Whitespace == {" ", "\t", "\n"}

RECURSIVE LStrip(_)
LStrip(s) ==
    IF s # <<>> /\ Head(s) \in Whitespace THEN LStrip(Tail(s)) ELSE s

RECURSIVE RStrip(_)
RStrip(s) ==
    IF s # <<>> /\ s[Len(s)] \in Whitespace
    THEN RStrip(SubSeq(s, 1, Len(s) - 1))
    ELSE s

\* str.strip()
Strip(s) == RStrip(LStrip(s))

DigitChars == <<"0", "1", "2", "3", "4", "5", "6", "7", "8", "9">>

DigitValue(ch) == (CHOOSE i \in DOMAIN DigitChars : DigitChars[i] = ch) - 1

IsDigits(s) == s # <<>> /\ \A i \in DOMAIN s : s[i] \in Range(DigitChars)

RECURSIVE FormatNat(_)
FormatNat(n) ==
    IF n < 10 THEN <<DigitChars[n + 1]>>
    ELSE FormatNat(n \div 10) \o <<DigitChars[(n % 10) + 1]>>

RECURSIVE ParseNat(_)
ParseNat(s) ==
    IF s = <<>> THEN 0
    ELSE 10 * ParseNat(SubSeq(s, 1, Len(s) - 1)) + DigitValue(s[Len(s)])

(* ------------------------------- cells -------------------------------- *)
\* A cell of a DataFrame or of a worksheet: text, number, datetime, or
\* missing (NaN / NaT / None / an empty worksheet cell).
Txt(s) == [k |-> "str", s |-> s, n |-> 0]
Num(n) == [k |-> "num", s |-> <<>>, n |-> n]
Dt(t) == [k |-> "dt", s |-> <<>>, n |-> t]
NaN == [k |-> "nan", s |-> <<>>, n |-> 0]

IsNull(c) == c.k = "nan"

\* The strings pandas' readers turn into NaN unless told otherwise
\* (keep_default_na = True, the default of pd.read_excel).
STR_NA_VALUES ==
    { <<>>,
      <<"#", "N", "/", "A">>,
      <<"#", "N", "/", "A", " ", "N", "/", "A">>,
      <<"#", "N", "A">>,
      <<"-", "1", ".", "#", "I", "N", "D">>,
      <<"-", "1", ".", "#", "Q", "N", "A", "N">>,
      <<"-", "N", "a", "N">>,
      <<"-", "n", "a", "n">>,
      <<"1", ".", "#", "I", "N", "D">>,
      <<"1", ".", "#", "Q", "N", "A", "N">>,
      <<"<", "N", "A", ">">>,
      <<"N", "/", "A">>,
      <<"N", "A">>,
      <<"N", "U", "L", "L">>,
      <<"N", "a", "N">>,
      <<"N", "o", "n", "e">>,
      <<"n", "/", "a">>,
      <<"n", "a", "n">>,
      <<"n", "u", "l", "l">> }

\* DataFrame.to_excel on one value: a missing value is written as na_rep,
\* the empty string; everything else keeps its type.
WriteCell(c) == IF IsNull(c) THEN Txt(<<>>) ELSE c

\* pd.read_excel on one worksheet cell: an empty cell, and a text cell
\* spelling a null marker, come back as NaN.
ReadCell(c) ==
    IF c.k = "nan" THEN NaN
    ELSE IF c.k = "str" /\ c.s \in STR_NA_VALUES THEN NaN
    ELSE c

\* pd.to_datetime(errors="coerce") on one value.
ToDatetime(c) ==
    CASE c.k = "dt" -> c
      [] c.k = "num" -> Dt(c.n)
      [] c.k = "str" -> IF IsDigits(c.s) THEN Dt(ParseNat(c.s)) ELSE NaN
      [] OTHER -> NaN

\* pd.to_numeric(errors="coerce") on one value.
ToNumeric(c) ==
    CASE c.k = "num" -> c
      [] c.k = "str" -> IF IsDigits(c.s) THEN Num(ParseNat(c.s)) ELSE NaN
      [] OTHER -> NaN

(* ------------------------------ tables -------------------------------- *)
\* A DataFrame: its columns in order and its rows, each a function from
\* the column names to cells.
EmptyDF(cols) == [cols |-> cols, rows |-> <<>>]

ExtendRow(row, has, cols) ==
    [c \in Range(cols) |-> IF c \in has THEN row[c] ELSE NaN]

\* pd.concat keeping only the frame appended.
ConcatDropsExisting(a, b) == b

\* pd.concat([a, b], ignore_index=True): the union of the columns, a's
\* first, and the rows of a followed by those of b.
Concat(a, b) ==
    LET cols == a.cols \o SelectSeq(b.cols, LAMBDA c : c \notin Range(a.cols))
    IN [cols |-> cols,
        rows |-> [i \in 1..Len(a.rows) |-> ExtendRow(a.rows[i], Range(a.cols), cols)]
                 \o [i \in 1..Len(b.rows) |-> ExtendRow(b.rows[i], Range(b.cols), cols)]]

MapCells(df, F(_, _)) ==
    [cols |-> df.cols,
     rows |-> [i \in 1..Len(df.rows) |->
                 [c \in Range(df.cols) |-> F(c, df.rows[i][c])]]]

(* ------------------------------ the file ------------------------------ *)
\* The backing file: absent, present but not a readable workbook, or a
\* workbook with one named sheet holding a table.
Absent == [state |-> "absent", sheet |-> "", df |-> EmptyDF(<<>>)]
Corrupt == [state |-> "corrupt", sheet |-> "", df |-> EmptyDF(<<>>)]
Workbook(sheet, df) == [state |-> "ok", sheet |-> sheet, df |-> df]

\* os.path.exists(caminho)
PathExists(f) == f.state # "absent"

\* df.to_excel(writer, sheet_name=sheet, index=False) into a fresh workbook.
ToExcel(df, sheet) == Workbook(sheet, MapCells(df, LAMBDA c, v : WriteCell(v)))

\* pd.read_excel(caminho, sheet_name=aba, engine="openpyxl"): raises when
\* the file is no workbook or has no sheet of that name.
ReadExcel(f, aba) ==
    IF f.state = "ok" /\ f.sheet = aba
    THEN [raised |-> FALSE, df |-> MapCells(f.df, LAMBDA c, v : ReadCell(v))]
    ELSE [raised |-> TRUE, df |-> EmptyDF(<<>>)]

(* --------------------------- carregar_dados --------------------------- *)
\* for c in COLUNAS_PADRAO: if c not in df.columns: df[c] = None
\* df = df[COLUNAS_PADRAO].copy()
Backfill(df) ==
    [cols |-> COLUNAS_PADRAO,
     rows |-> [i \in 1..Len(df.rows) |->
                 ExtendRow(df.rows[i], Range(df.cols), COLUNAS_PADRAO)]]

NormalizaCell(c, v) ==
    IF c = "Data/Hora" THEN ToDatetime(v)
    ELSE IF c = "Valor Pago (USD)" THEN ToNumeric(v)
    ELSE v

Normaliza(df) == MapCells(df, NormalizaCell)

\* carregar_dados without its try/except: the read error reaches the caller.
OnReadErrorUncaught == [df |-> EmptyDF(<<>>), warned |-> FALSE, raised |-> TRUE]

\* What a failed read turns into: with the try/except, a warning and the
\* fall-through to the empty table.
OnReadError == [df |-> EmptyDF(COLUNAS_PADRAO), warned |-> TRUE, raised |-> FALSE]

CarregarDados(f) ==
    IF PathExists(f)
    THEN LET r == ReadExcel(f, ABA)
         IN IF r.raised THEN OnReadError
            ELSE [df |-> Normaliza(Backfill(r.df)), warned |-> FALSE, raised |-> FALSE]
    ELSE [df |-> EmptyDF(COLUNAS_PADRAO), warned |-> FALSE, raised |-> FALSE]

(* --------------------------- salvar_registro -------------------------- *)
\* datetime.now().strftime("%Y-%m-%d %H:%M:%S")
Strftime(t) == FormatNat(t)

Novo(c, s, v, t) ==
    [cols |-> COLUNAS_PADRAO,
     rows |-> << [col \in Range(COLUNAS_PADRAO) |->
                    CASE col = "Data/Hora" -> Txt(Strftime(t))
                      [] col = "Cliente" -> Txt(Strip(c))
                      [] col = "Servico" -> Txt(Strip(s))
                      [] OTHER -> Num(v)] >>]

\* salvar_registro writing the new record without reading the file first.
DfFinalNoRead(f, novo) == novo

\* Lines 45-52: the table to write.
DfFinal(f, novo) ==
    IF PathExists(f)
    THEN LET r == ReadExcel(f, ABA)
         IN IF r.raised THEN novo ELSE Concat(r.df, novo)
    ELSE novo

\* Lines 54-55: pd.ExcelWriter(caminho, mode="w") opens the path for
\* writing, which empties it, and the workbook is written when the block
\* is left.  The outcome is one of: written; the open failed and the file
\* is untouched; the write failed after the open and the file is left
\* empty or cut short.
WriteOutcomes == {"ok", "open_failed", "write_failed"}

WriteFile(f, df, w) ==
    CASE w = "ok" -> ToExcel(df, ABA)
      [] w = "open_failed" -> f
      [] OTHER -> Corrupt

(* ------------------------------ the form ------------------------------ *)
\* What is typed into the form: client, service, amount.  Well-formed
\* entries, and entries with an empty or whitespace-only client or
\* service, or a negative amount.
Submissions ==
    ({ <<"a">>, <<" ", "b", " ">>, <<"N", "A">> } \X { <<"s", " ">> } \X {0, 5})
    \cup { << <<>>, <<"s", " ">>, 0 >>,
           << <<" ">>, <<"s", " ">>, 5 >>,
           << <<"a">>, <<>>, 5 >>,
           << <<"a">>, <<" ">>, 0 >>,
           << <<"a">>, <<"s", " ">>, -1 >>,
           << <<" ">>, <<" ">>, -1 >> }

\* The validation with "not cliente" for "not cliente.strip()".
ErrosNoStrip(c, s, v) ==
    (IF c = <<>> THEN {"cliente"} ELSE {})
    \cup (IF s = <<>> THEN {"servico"} ELSE {})
    \cup (IF v < 0 THEN {"valor"} ELSE {})

\* Lines 87-93.
Erros(c, s, v) ==
    (IF Strip(c) = <<>> THEN {"cliente"} ELSE {})
    \cup (IF Strip(s) = <<>> THEN {"servico"} ELSE {})
    \cup (IF v < 0 THEN {"valor"} ELSE {})

\* The form of line 80: whether it was submitted, and its fields.
NoInput == [enviado |-> FALSE, cliente |-> <<>>, servico |-> <<>>, valor |-> 0]

Enviado(c, s, v) == [enviado |-> TRUE, cliente |-> c, servico |-> s, valor |-> v]

(* ----------------------------- the report ----------------------------- *)
\* Line 113: df["Data"] = pd.to_datetime(df["Data/Hora"]).dt.date
NoDate == [null |-> TRUE, d |-> 0]

DataOf(row) ==
    LET c == ToDatetime(row["Data/Hora"])
    IN IF c.k = "dt" THEN [null |-> FALSE, d |-> c.n \div TicksPerDay] ELSE NoDate

\* Comparisons of the Data column with a date: false on a missing date.
DateGe(x, d) == ~x.null /\ x.d >= d
DateLe(x, d) == ~x.null /\ x.d <= d

\* Series.isin(values) on one cell.
IsIn(c, values) == c.k = "str" /\ c.s \in values

\* Lines 133, 137: sorted(df[col].dropna().unique()), the options offered.
Unicos(t, col) ==
    {t.rows[i][col].s : i \in {j \in 1..Len(t.rows) : t.rows[j][col].k = "str"}}

\* The mask with isin applied even to an empty selection.
MaskNoGuard(t, data_inicial, data_final, clientes_sel, servicos_sel) ==
    [i \in 1..Len(t.rows) |->
        /\ DateGe(DataOf(t.rows[i]), data_inicial)
        /\ DateLe(DataOf(t.rows[i]), data_final)
        /\ IsIn(t.rows[i]["Cliente"], clientes_sel)
        /\ IsIn(t.rows[i]["Servico"], servicos_sel)]

\* Lines 141-145.
Mask(t, data_inicial, data_final, clientes_sel, servicos_sel) ==
    LET m0 == [i \in 1..Len(t.rows) |->
                 DateGe(DataOf(t.rows[i]), data_inicial)
                 /\ DateLe(DataOf(t.rows[i]), data_final)]
        m1 == IF clientes_sel # {}
              THEN [i \in 1..Len(t.rows) |->
                      m0[i] /\ IsIn(t.rows[i]["Cliente"], clientes_sel)]
              ELSE m0
        m2 == IF servicos_sel # {}
              THEN [i \in 1..Len(t.rows) |->
                      m1[i] /\ IsIn(t.rows[i]["Servico"], servicos_sel)]
              ELSE m1
    IN m2

\* Line 147: df.loc[mask].copy()
RECURSIVE LocRows(_, _)
LocRows(rows, mask) ==
    IF rows = <<>> THEN <<>>
    ELSE (IF Head(mask) THEN <<Head(rows)>> ELSE <<>>)
         \o LocRows(Tail(rows), Tail(mask))

Loc(t, mask) == [cols |-> t.cols, rows |-> LocRows(t.rows, mask)]

\* A float result: a number num/den, or NaN.
Frac(a, b) == [nan |-> FALSE, num |-> a, den |-> b]
FloatNaN == [nan |-> TRUE, num |-> 0, den |-> 1]

\* Series.sum(skipna=True)
RECURSIVE SumSkipNa(_, _)
SumSkipNa(rows, col) ==
    IF rows = <<>> THEN 0
    ELSE (IF Head(rows)[col].k = "num" THEN Head(rows)[col].n ELSE 0)
         + SumSkipNa(Tail(rows), col)

\* Series.count(): the values that are not missing.
RECURSIVE CountNotNa(_, _)
CountNotNa(rows, col) ==
    IF rows = <<>> THEN 0
    ELSE (IF Head(rows)[col].k = "num" THEN 1 ELSE 0)
         + CountNotNa(Tail(rows), col)

\* Series.mean(skipna=True): NaN when every value is missing.
Mean(rows, col) ==
    IF CountNotNa(rows, col) = 0 THEN FloatNaN
    ELSE Frac(SumSkipNa(rows, col), CountNotNa(rows, col))

\* Lines 151-153.
Kpis(t) ==
    LET total_periodo == SumSkipNa(t.rows, "Valor Pago (USD)")
        qtd_registros == Len(t.rows)
        media_registro == IF qtd_registros > 0
                          THEN Mean(t.rows, "Valor Pago (USD)")
                          ELSE Frac(0, 1)
    IN [total_periodo |-> total_periodo,
        qtd_registros |-> qtd_registros,
        media_registro |-> media_registro]

\* The days the date picker can return.
Days == 0..(MaxClock \div TicksPerDay)

NoFiltro == [data_inicial |-> 0, data_final |-> 0,
             clientes_sel |-> {}, servicos_sel |-> {}]
NoView == [shown |-> FALSE, df_filtrado |-> EmptyDF(<<>>), kpis |-> Kpis(EmptyDF(<<>>))]

VARIABLES
    file,       \* the backing file payments_records.xlsx
    cache,      \* st.cache_data's entry for carregar_dados(): <<>> or <<result>>
    pc,         \* where the script run stands: "form", "report", or "idle"
                \* once the page is drawn and the app waits for the user
    msg,        \* what the last step showed: success, error, exception, ...
    form,       \* the submitted form fields (cleared once handled)
    saved,      \* whether the last step called salvar_registro
    now,        \* the clock
    df,         \* what carregar_dados() returned to the report section
    filtro,     \* the period and the selections of the filter widgets
    view,       \* df_filtrado and the KPIs computed from it
    proc,       \* concurrent appenders: where each stands in salvar_registro
    acked,      \* how many concurrent appends returned without an error
    overlap     \* whether an append read the file while another was under way

appVars == <<cache, pc, msg, form, saved, now, df, filtro, view>>
raceVars == <<proc, acked, overlap>>
vars == <<file, cache, pc, msg, form, saved, now, df, filtro, view, proc, acked, overlap>>

NoDF == [df |-> EmptyDF(<<>>), warned |-> FALSE, raised |-> FALSE]

Procs == 1..NumProcs

IdleProc == [pc |-> "idle", novo |-> EmptyDF(<<>>), df_final |-> EmptyDF(<<>>)]

InitApp ==
    /\ cache = <<>>
    /\ pc = "form"
    /\ msg = "none"
    /\ form = NoInput
    /\ saved = FALSE
    /\ now = 0
    /\ df = NoDF
    /\ filtro = NoFiltro
    /\ view = NoView
    /\ proc = [p \in Procs |-> IdleProc]
    /\ acked = 0
    /\ overlap = FALSE

Init ==
    /\ file = Absent
    /\ InitApp

Rows(f) == Len(f.df.rows)

\* Lines 86-97: the submission fails validation.
SubmitRejected ==
    /\ pc = "form"
    /\ \E x \in Submissions :
        /\ Erros(x[1], x[2], x[3]) # {}
        /\ form' = Enviado(x[1], x[2], x[3])
    /\ msg' = "error"
    /\ saved' = FALSE
    /\ pc' = "report"
    /\ df' = NoDF
    /\ filtro' = NoFiltro
    /\ view' = NoView
    /\ UNCHANGED <<file, cache, now>>
    /\ UNCHANGED raceVars

\* Lines 98-102: salvar_registro, st.success, carregar_dados.clear(),
\* st.rerun(); the rerun goes on to the report section.
SubmitSaved ==
    /\ pc = "form"
    /\ Rows(file) < MaxRows
    /\ \E x \in Submissions, t \in now..MaxClock :
        /\ Erros(x[1], x[2], x[3]) = {}
        /\ form' = Enviado(x[1], x[2], x[3])
        /\ now' = t
        /\ file' = WriteFile(file, DfFinal(file, Novo(x[1], x[2], x[3], t)), "ok")
    /\ msg' = "success"
    /\ saved' = TRUE
    /\ cache' = <<>>
    /\ pc' = "report"
    /\ df' = NoDF
    /\ filtro' = NoFiltro
    /\ view' = NoView
    /\ UNCHANGED raceVars

\* Lines 99, 54-55: the write raises; nothing after line 99 runs and the
\* script run ends there.
SubmitWriteFails ==
    /\ pc = "form"
    /\ Rows(file) < MaxRows
    /\ \E x \in Submissions, t \in now..MaxClock, w \in WriteOutcomes \ {"ok"} :
        /\ Erros(x[1], x[2], x[3]) = {}
        /\ form' = Enviado(x[1], x[2], x[3])
        /\ now' = t
        /\ file' = WriteFile(file, DfFinal(file, Novo(x[1], x[2], x[3], t)), w)
    /\ msg' = "exception"
    /\ saved' = TRUE
    /\ pc' = "idle"
    /\ df' = NoDF
    /\ filtro' = NoFiltro
    /\ view' = NoView
    /\ UNCHANGED cache
    /\ UNCHANGED raceVars

\* Lines 108-153: df = carregar_dados(), through st.cache_data; when the
\* table is not empty, the filters and the KPIs.  Reached after a rejected
\* submission, after the rerun of a saved one, or with nothing submitted.
Render ==
    /\ pc \in {"form", "report"}
    /\ LET r == IF cache # <<>> THEN cache[1] ELSE CarregarDados(file)
       IN /\ df' = r
          /\ cache' = IF r.raised THEN cache ELSE <<r>>
          /\ msg' = IF r.raised THEN "load_exception" ELSE "report"
          /\ IF r.raised \/ r.df.rows = <<>>
             THEN filtro' = NoFiltro /\ view' = NoView
             ELSE \E di \in Days, de \in Days,
                     cs \in SUBSET Unicos(r.df, "Cliente"),
                     ss \in SUBSET Unicos(r.df, "Servico") :
                    LET df_filtrado == Loc(r.df, Mask(r.df, di, de, cs, ss))
                    IN /\ filtro' = [data_inicial |-> di, data_final |-> de,
                                     clientes_sel |-> cs, servicos_sel |-> ss]
                       /\ view' = [shown |-> TRUE, df_filtrado |-> df_filtrado,
                                   kpis |-> Kpis(df_filtrado)]
    /\ pc' = "idle"
    /\ form' = NoInput
    /\ saved' = FALSE
    /\ UNCHANGED <<file, now>>
    /\ UNCHANGED raceVars

\* Lines 1-84: the user acts on the page and the script runs again from
\* the top; what the previous run computed and drew is gone.
StartRun ==
    /\ pc = "idle"
    /\ pc' = "form"
    /\ msg' = "none"
    /\ form' = NoInput
    /\ saved' = FALSE
    /\ df' = NoDF
    /\ filtro' = NoFiltro
    /\ view' = NoView
    /\ UNCHANGED <<file, cache, now>>
    /\ UNCHANGED raceVars

\* Lines 66-72, 188: to_excel_bytes(df_filtrado[COLUNAS_PADRAO]).
SelectCols(t, cols) ==
    [cols |-> cols,
     rows |-> [i \in 1..Len(t.rows) |-> [c \in Range(cols) |-> t.rows[i][c]]]]

ToExcelBytes(t) == ToExcel(t, SHEET_FILTERED)

\* The filtered download (lines 186-195) put in the place of the backing
\* file by the operator, and the app started again on it.
RestoreExport ==
    /\ pc = "idle"
    /\ view.shown
    /\ file' = ToExcelBytes(SelectCols(view.df_filtrado, COLUNAS_PADRAO))
    /\ msg' = "restored"
    /\ cache' = <<>>
    /\ pc' = "form"
    /\ form' = NoInput
    /\ saved' = FALSE
    /\ df' = NoDF
    /\ filtro' = NoFiltro
    /\ view' = NoView
    /\ UNCHANGED now
    /\ UNCHANGED raceVars

Next == StartRun \/ SubmitRejected \/ SubmitSaved \/ SubmitWriteFails \/ Render

Spec == Init /\ [][Next]_vars

\* What the app may find in the place of its backing file when it starts:
\* nothing, or a workbook edited by hand or produced by another tool.
HandRow(ts, c, s, v) ==
    [col \in Range(COLUNAS_PADRAO) |->
        CASE col = "Data/Hora" -> ts
          [] col = "Cliente" -> c
          [] col = "Servico" -> s
          [] OTHER -> v]

InitialFiles ==
    { Absent,
      Workbook(ABA, [cols |-> <<"Cliente", "Valor Pago (USD)">>,
                     rows |-> << [col \in {"Cliente", "Valor Pago (USD)"} |->
                                    IF col = "Cliente" THEN Txt(<<"a">>)
                                    ELSE Txt(<<"x">>)] >>]),
      Workbook(ABA, [cols |-> COLUNAS_PADRAO,
                     rows |-> << HandRow(Txt(<<"0">>), Txt(<<"a">>), Txt(<<"s">>), NaN),
                                 HandRow(Txt(<<"?">>), NaN, Txt(<<"t">>), Txt(<<"7">>)) >>]),
      Workbook(SHEET_FILTERED,
               [cols |-> COLUNAS_PADRAO,
                rows |-> << HandRow(Dt(0), Txt(<<"a">>), Txt(<<"s">>), Num(5)) >>]) }

InitExt ==
    /\ file \in InitialFiles
    /\ InitApp

NextExt == Next \/ RestoreExport

SpecExt == InitExt /\ [][NextExt]_vars

(* --------------------- two processes, one file ------------------------ *)
\* salvar_registro, lines 38-52: build the record, read the file, concat.
RaceRead(p) ==
    /\ proc[p].pc = "idle"
    /\ \E x \in Submissions :
        /\ Erros(x[1], x[2], x[3]) = {}
        /\ LET novo == Novo(x[1], x[2], x[3], now)
           IN proc' = [proc EXCEPT ![p] = [pc |-> "read", novo |-> novo,
                                           df_final |-> DfFinal(file, novo)]]
    /\ overlap' = (overlap \/ \E q \in Procs \ {p} : proc[q].pc = "read")
    /\ UNCHANGED <<file, acked>>
    /\ UNCHANGED appVars

\* salvar_registro, lines 54-57: the whole-file write, and the return.
RaceWrite(p) ==
    /\ proc[p].pc = "read"
    /\ file' = WriteFile(file, proc[p].df_final, "ok")
    /\ proc' = [proc EXCEPT ![p].pc = "done"]
    /\ acked' = acked + 1
    /\ UNCHANGED overlap
    /\ UNCHANGED appVars

NextRace == \E p \in Procs : RaceRead(p) \/ RaceWrite(p)

SpecRace == Init /\ [][NextRace]_vars

(* ------------------------------ claims -------------------------------- *)
\* The record a submission is meant to persist: trimmed client and
\* service, the amount as given.
Blank(s) == \A i \in DOMAIN s : s[i] \in Whitespace
Trimmed(s) == s # <<>> /\ s[1] \notin Whitespace /\ s[Len(s)] \notin Whitespace
IsTrimOf(t, s) ==
    \E i \in 1..Len(s), j \in 1..Len(s) :
        /\ t = SubSeq(s, i, j)
        /\ Trimmed(t)
        /\ Blank(SubSeq(s, 1, i - 1))
        /\ Blank(SubSeq(s, j + 1, Len(s)))

HoldsSubmission(row, f) ==
    /\ row["Cliente"].k = "str" /\ IsTrimOf(row["Cliente"].s, f.cliente)
    /\ row["Servico"].k = "str" /\ IsTrimOf(row["Servico"].s, f.servico)
    /\ row["Valor Pago (USD)"].k = "num" /\ row["Valor Pago (USD)"].n = f.valor

\* C1 (as claimed): after a submission that passed validation and was
\* written, the next carregar_dados() returns a table whose last record
\* holds the trimmed client and service and the amount submitted.
C1_AppendThenLoad ==
    [][(msg = "success" /\ msg' = "report")
         => /\ df'.df.rows # <<>>
            /\ HoldsSubmission(df'.df.rows[Len(df'.df.rows)], form)]_vars

\* The records a file holds, over the canonical columns; an empty cell and
\* an empty text are the same thing on the sheet.
SheetCell(c) == IF c.k = "nan" \/ (c.k = "str" /\ c.s = <<>>) THEN NaN ELSE c

Persisted(f) ==
    IF f.state = "ok"
    THEN [i \in 1..Len(f.df.rows) |->
            [c \in Range(COLUNAS_PADRAO) |->
                IF c \in Range(f.df.cols) THEN SheetCell(f.df.rows[i][c]) ELSE NaN]]
    ELSE <<>>

Readable(f) == f.state = "ok" /\ f.sheet = ABA

\* A persisted cell as the next append writes it back: unchanged, unless
\* it is text spelling one of the reader's null markers, which comes back
\* as an empty cell.
Rewritten(c) == IF c.k = "str" /\ c.s \in STR_NA_VALUES THEN NaN ELSE c

C3_FailedWriteKeepsFile ==
    [][(form'.enviado /\ saved' /\ msg' # "success")
         => (msg' = "exception" /\ file' = file)]_vars

\* C4: a submission with a blank client, a blank service or a negative
\* amount is rejected before any write: salvar_registro is not called, the
\* file and the cache are unchanged, and an error is shown.
C4_RejectedBeforeWrite ==
    [][(form'.enviado
        /\ (Blank(form'.cliente) \/ Blank(form'.servico) \/ form'.valor < 0))
         => /\ ~saved'
            /\ file' = file
            /\ cache' = cache
            /\ msg' = "error"]_vars

\* C4 witness: a whitespace-only client rejected while a file with a
\* record and a cached load exist.
C4_Rejected ==
    /\ form.enviado /\ form.cliente = <<" ">> /\ form.valor >= 0
    /\ msg = "error"
    /\ file.state = "ok" /\ Rows(file) > 0
    /\ cache # <<>>

\* C5 (as claimed): from an absent file, whatever is submitted, every
\* persisted record has amount >= 0 and a client and a service that are
\* not empty and carry no leading or trailing whitespace.
C5_PersistedValid ==
    \A i \in 1..Len(Persisted(file)) :
        LET r == Persisted(file)[i]
        IN /\ r["Valor Pago (USD)"].k = "num" /\ r["Valor Pago (USD)"].n >= 0
           /\ r["Cliente"].k = "str" /\ Trimmed(r["Cliente"].s)
           /\ r["Servico"].k = "str" /\ Trimmed(r["Servico"].s)

\* C6: carregar_dados never raises; on an absent file it returns the
\* empty table with the four canonical columns and no warning; on a file
\* that is present but cannot be read it warns and returns that same table.
C6_LoadNeverRaises ==
    [][(cache = <<>> /\ msg' \in {"report", "load_exception"})
         => /\ ~df'.raised
            /\ df'.df.cols = <<"Data/Hora", "Cliente", "Servico", "Valor Pago (USD)">>
            /\ file.state = "absent" => (df'.df.rows = <<>> /\ ~df'.warned)
            /\ (file.state # "absent" /\ ~Readable(file))
                  => (df'.df.rows = <<>> /\ df'.warned)
            /\ Readable(file) => (Len(df'.df.rows) = Rows(file) /\ ~df'.warned)]_vars

\* C6 witness: a load of a file left unreadable, answered with a warning
\* and the empty table.
C6_WarnedEmpty ==
    /\ file.state = "corrupt" /\ msg = "report"
    /\ df.warned /\ df.df.rows = <<>> /\ Len(df.df.cols) = 4

\* The (client, service, amount) triples and the timestamps of a table.
Records(t) ==
    [i \in 1..Len(t.rows) |->
        <<t.rows[i]["Data/Hora"], t.rows[i]["Cliente"], t.rows[i]["Servico"],
          t.rows[i]["Valor Pago (USD)"]>>]

\* C7 (as claimed): the bytes of to_excel_bytes, put in the place of the
\* backing file, load back as the same records in the same order.
C7_ExportRoundTrip ==
    [][msg' = "restored"
         => Records(CarregarDados(file').df) = Records(view.df_filtrado)]_vars

\* C8: the filtered view is the subsequence, in order, of the loaded
\* records whose date lies in [data_inicial, data_final] and whose client
\* and service are among the selected ones, an empty selection selecting
\* all.
Matches(row, f) ==
    /\ row["Data/Hora"].k = "dt"
    /\ f.data_inicial <= row["Data/Hora"].n \div TicksPerDay
    /\ row["Data/Hora"].n \div TicksPerDay <= f.data_final
    /\ (f.clientes_sel = {}
        \/ (row["Cliente"].k = "str" /\ row["Cliente"].s \in f.clientes_sel))
    /\ (f.servicos_sel = {}
        \/ (row["Servico"].k = "str" /\ row["Servico"].s \in f.servicos_sel))

C8_FilterIsSubsequence ==
    view.shown =>
        LET rows == df.df.rows
            out == view.df_filtrado.rows
            idx == {i \in 1..Len(rows) : Matches(rows[i], filtro)}
            Kth(k) == CHOOSE i \in idx : Cardinality({j \in idx : j <= i}) = k
        IN /\ Len(out) = Cardinality(idx)
           /\ \A k \in 1..Len(out) : out[k] = rows[Kth(k)]
           /\ filtro.data_inicial > filtro.data_final => out = <<>>

\* C8 witness: no client selected, a service selected, and a view that
\* keeps some records and drops others.
C8_PartialView ==
    /\ view.shown
    /\ filtro.clientes_sel = {} /\ filtro.servicos_sel # {}
    /\ view.df_filtrado.rows # <<>>
    /\ Len(view.df_filtrado.rows) < Len(df.df.rows)

\* C9 (as claimed): the average KPI is always a number: the sum of the
\* non-null amounts over their count, and 0 when that count is 0.
C9_AverageDefined ==
    view.shown =>
        LET rows == view.df_filtrado.rows
            nn == {i \in 1..Len(rows) : rows[i]["Valor Pago (USD)"].k = "num"}
            m == view.kpis.media_registro
        IN /\ ~m.nan
           /\ IF nn = {} THEN m.num = 0
              ELSE m.num * Cardinality(nn) = view.kpis.total_periodo * m.den

\* C10: appends that run one at a time lose nothing: the file holds one
\* record for every append that returned.
C10_SequentialKeepsAll == ~overlap => Rows(file) = acked

\* C10 witness: both processes read before either wrote, both returned,
\* and the file holds the record of one of them only.
C10_LostUpdate ==
    /\ overlap
    /\ \A p \in Procs : proc[p].pc = "done"
    /\ acked = NumProcs
    /\ \E p \in Procs :
          /\ file = ToExcel(proc[p].novo, ABA)
          /\ \E q \in Procs : proc[q].novo # proc[p].novo

====
